---------------------------- MODULE Spec2Model ----------------------------
(***************************************************************************)
(* Model of tableau_sql_extractor.py: one run of cli(), which optionally   *)
(* downloads a .tdsx archive to a temporary file, calls                    *)
(* extract_sql_from_tdsx on it and finally removes the temporary file.     *)
(*                                                                         *)
(* Strings are sequences of one-character strings, so that str.strip, the  *)
(* f-string labels and the safe-name transform are computed character by   *)
(* character.  An XML document is the list of the elements below its root  *)
(* in document (pre-)order with a parent pointer each; 0 is the root       *)
(* element, which carries none of the three tags the code searches for     *)
(* (Tableau's root is <datasource>).                                       *)
(***************************************************************************)
EXTENDS Integers, Sequences, FiniteSets, TLC

(* ------------------------------ bounds --------------------------------- *)
\* most .tds entries in one archive
MaxDocs == 2
\* most elements (below the roots) in all documents of one archive
MaxNodes == 4

(* --------------------------- string helpers ---------------------------- *)
None == <<>>
Some(s) == <<s>>

WS == {" "}
AlnumChars == {"A", "B", "S", "a", "c", "d", "e", "i", "l", "m", "n", "o", "q",
               "r", "s", "t", "u", "y", "0", "1", "2", "3", "4", "5", "6",
               "7", "8", "9"}

RECURSIVE lstrip(_)
lstrip(s) == IF s # <<>> /\ Head(s) \in WS THEN lstrip(Tail(s)) ELSE s

RECURSIVE rstrip(_)
rstrip(s) ==
    IF s # <<>> /\ s[Len(s)] \in WS THEN rstrip(SubSeq(s, 1, Len(s) - 1)) ELSE s

\* str.strip()
strip(s) == rstrip(lstrip(s))

Digit == <<"0", "1", "2", "3", "4", "5", "6", "7", "8", "9">>

\* the decimal text an f-string gives a non-negative int
RECURSIVE str(_)
str(n) == IF n < 10 THEN <<Digit[n + 1]>>
          ELSE str(n \div 10) \o <<Digit[(n % 10) + 1]>>

S_connection == <<"c", "o", "n", "n", "e", "c", "t", "i", "o", "n", "_">>
S_query == <<"_", "q", "u", "e", "r", "y", "_">>
S_initial_sql == <<"_", "i", "n", "i", "t", "i", "a", "l", "_", "s", "q", "l">>
S_unnamed == <<"u", "n", "n", "a", "m", "e", "d">>
S_sql == <<".", "s", "q", "l">>

\* Element.get(attr, default)
get(attr, default) == IF attr = None THEN default ELSE attr[1]

(* ------------------------------ documents ------------------------------ *)
Conn(class, ots) ==
    [tag |-> "connection", class |-> class, ots |-> ots,
     type |-> "", text |-> None, name |-> None]
Rel(type, text) ==
    [tag |-> "relation", class |-> None, ots |-> None,
     type |-> type, text |-> text, name |-> None]
Named(name) ==
    [tag |-> "named-connection", class |-> None, ots |-> None,
     type |-> "", text |-> None, name |-> name]

\* The element vocabularies the documents of one archive are drawn from.
T_ws == <<" ">>
T_A == <<"A", " ">>
T_B == <<"B">>
T_S == <<"S", " ">>
Vocab ==
    [sql |-> {Conn(None, None), Rel("text", Some(T_ws)), Rel("text", Some(T_A))},
     collide |-> {Conn(Some(<<".">>), None), Rel("text", Some(T_A)),
                  Rel("text", Some(T_B))},
     noclass |-> {Conn(Some(<<>>), None), Rel("text", None), Rel("text", Some(T_A))},
     types |-> {Conn(None, None), Rel("table", Some(T_B)),
                Rel("text", Some(<<" ", "A">>))},
     named1 |-> {Named(None), Conn(None, None), Conn(None, Some(T_S))},
     named2 |-> {Named(Some(<<"n">>)), Conn(None, Some(T_ws)), Conn(None, Some(T_S))},
     mixed |-> {Named(Some(<<"n">>)), Conn(None, Some(T_S)), Rel("text", Some(T_A))},
     safe |-> {Conn(Some(<<".">>), None), Conn(Some(<<"_">>), None),
               Rel("text", Some(T_A)), Rel("text", Some(T_B))}]

\* the vocabularies of three elements, and the one of four
Profiles == (DOMAIN Vocab) \ {"safe"}
WideProfiles == {"safe"}

EmptyDoc == [node |-> <<>>, parent |-> <<>>]

\* the proper ancestors of element i (0 is the root)
RECURSIVE Ancestors(_, _)
Ancestors(par, i) == IF i = 0 THEN {} ELSE {par[i]} \cup Ancestors(par, par[i])

\* parent pointers of a tree listed in document order
PreOrder(par) ==
    \A i \in DOMAIN par :
        /\ par[i] < i
        /\ i > 1 => par[i] \in {i - 1} \cup Ancestors(par, i - 1)

\* the shapes of the trees of 0, 1, ... n elements below a root
RECURSIVE ShapesUpTo(_)
ShapesUpTo(n) ==
    IF n < 0 THEN <<>>
    ELSE Append(ShapesUpTo(n - 1), {p \in [1..n -> 0..(n - 1)] : PreOrder(p)})

ShapesTable == ShapesUpTo(MaxNodes)

(* --------------------------- ElementTree search ------------------------ *)
\* the elements of a set of indices, in document order
RECURSIVE InOrder(_)
InOrder(S) ==
    IF S = {} THEN <<>>
    ELSE LET m == CHOOSE x \in S : \A y \in S : x <= y
         IN  <<m>> \o InOrder(S \ {m})

\* elem.findall('.//tag'): the descendants of elem with that tag
findall(doc, elem, tag) ==
    InOrder({j \in DOMAIN doc.node :
                /\ elem \in Ancestors(doc.parent, j)
                /\ doc.node[j].tag = tag})

\* connection.findall('.//relation[@type="text"]')
findall_text_relations(doc, elem) ==
    InOrder({j \in DOMAIN doc.node :
                /\ elem \in Ancestors(doc.parent, j)
                /\ doc.node[j].tag = "relation"
                /\ doc.node[j].type = "text"})

\* find, taking the last match instead of the first
find_last(doc, elem) ==
    LET all == findall(doc, elem, "connection")
    IN  IF all = <<>> THEN 0 ELSE all[Len(all)]

\* elem.find('.//connection'): the first match, or 0 for None
find(doc, elem) ==
    LET all == findall(doc, elem, "connection")
    IN  IF all = <<>> THEN 0 ELSE all[1]

(* ------------------------- the dictionary ------------------------------ *)
\* sql_queries is a dict: a list of entries in insertion order, keys unique
HasKey(d, k) == \E i \in DOMAIN d : d[i].key = k

Lookup(d, k) == d[CHOOSE i \in DOMAIN d : d[i].key = k].val

\* d.setdefault(k, v): a label once written keeps its value
DictSetDefault(d, k, v) ==
    IF HasKey(d, k) THEN d ELSE Append(d, [key |-> k, val |-> v])

\* d[k] = v
DictSet(d, k, v) ==
    IF HasKey(d, k)
    THEN [i \in DOMAIN d |-> IF d[i].key = k THEN [key |-> k, val |-> v] ELSE d[i]]
    ELSE Append(d, [key |-> k, val |-> v])

(* ------------------- the body of the loop over .tds files -------------- *)
\* the test `sql_text` alone, without `and sql_text.strip()`
TruthyNoStrip(opt) == opt # None /\ opt[1] # <<>>

\* the test `sql_text and sql_text.strip()` on an optional string
Truthy(opt) == opt # None /\ opt[1] # <<>> /\ strip(opt[1]) # <<>>

\* conn_name = connection.get('class', f'connection_{idx}')
conn_name(doc, connection, idx) ==
    get(doc.node[connection].class, S_connection \o str(idx))

\* key = f"{conn_name}_query_{rel_idx}" if len(relations) > 1 else conn_name
RelKey(cname, relations, rel_idx) ==
    IF Len(relations) > 1 THEN cname \o S_query \o str(rel_idx) ELSE cname

\* for rel_idx, relation in enumerate(relations, 1): the writes it makes, from
\* rel_idx on, each with the place it comes from
RECURSIVE RelationLoop(_, _, _, _, _, _)
RelationLoop(doc, d, connection, cname, relations, rel_idx) ==
    IF rel_idx > Len(relations) THEN <<>>
    ELSE LET relation == relations[rel_idx]
             sql_text == doc.node[relation].text
             rest == RelationLoop(doc, d, connection, cname, relations, rel_idx + 1)
         IN  IF Truthy(sql_text)
             THEN <<[doc |-> d, kind |-> "relation", owner |-> connection,
                     node |-> relation,
                     key |-> RelKey(cname, relations, rel_idx),
                     val |-> strip(sql_text[1])]>> \o rest
             ELSE rest

\* for idx, connection in enumerate(connections, 1)
RECURSIVE ConnectionLoop(_, _, _, _)
ConnectionLoop(doc, d, connections, idx) ==
    IF idx > Len(connections) THEN <<>>
    ELSE LET connection == connections[idx]
         IN  RelationLoop(doc, d, connection, conn_name(doc, connection, idx),
                          findall_text_relations(doc, connection), 1)
             \o ConnectionLoop(doc, d, connections, idx + 1)

\* f"{name}_initial_sql"
NamedKey(doc, named_conn) == get(doc.node[named_conn].name, S_unnamed) \o S_initial_sql

\* for named_conn in named_connections
RECURSIVE NamedLoop(_, _, _, _)
NamedLoop(doc, d, named_connections, i) ==
    IF i > Len(named_connections) THEN <<>>
    ELSE LET named_conn == named_connections[i]
             connection_elem == find(doc, named_conn)
             rest == NamedLoop(doc, d, named_connections, i + 1)
         IN  IF connection_elem # 0 /\ Truthy(doc.node[connection_elem].ots)
             THEN <<[doc |-> d, kind |-> "named", owner |-> named_conn,
                     node |-> connection_elem,
                     key |-> NamedKey(doc, named_conn),
                     val |-> strip(doc.node[connection_elem].ots[1])]>> \o rest
             ELSE rest

\* the writes to sql_queries one parsed document causes, in order
Writes(doc, d) ==
    ConnectionLoop(doc, d, findall(doc, 0, "connection"), 1)
    \o NamedLoop(doc, d, findall(doc, 0, "named-connection"), 1)

\* sql_queries after the writes ws
RECURSIVE Apply(_, _)
Apply(dict, ws) ==
    IF ws = <<>> THEN dict
    ELSE Apply(DictSet(dict, Head(ws).key, Head(ws).val), Tail(ws))

(* ------------------------------ saving --------------------------------- *)
\* safe_name = "".join(c if c.isalnum() or c in ('-', '_') else '_' for c in name)
safe_name(name) ==
    [i \in DOMAIN name |->
        IF name[i] \in AlnumChars \/ name[i] \in {"-", "_"} THEN name[i] ELSE "_"]

\* the files of the output directory after the first n entries are written
RECURSIVE WriteFiles(_, _, _)
WriteFiles(fs, dict, n) ==
    IF n = 0 THEN fs
    ELSE LET before == WriteFiles(fs, dict, n - 1)
             path == safe_name(dict[n].key) \o S_sql
         IN  {f \in before : f.path # path}
             \cup {[path |-> path, content |-> dict[n].val]}

(* ------------------------------- state --------------------------------- *)
VARIABLES
    pc,           \* where the run is: cli, extract, loop, save, finally, done
    argv1,        \* sys.argv[1]: "none", "help", "url" or "path"
    temp_file,    \* cli's temp_file: TRUE once it names the downloaded file
    temp_on_disk, \* whether a file made by NamedTemporaryFile exists
    unlink_failed,\* whether os.unlink raised in the finally block
    exit_code,    \* -1 while running, then the process's exit status
    profile,      \* the vocabulary of the archive's documents
    nodes_left,   \* elements the archive's remaining documents may hold
    tds_left,     \* entries of tds_files not yet visited
    docIdx,       \* 1-based position in tds_files of the entry last visited
    root,         \* the tree last parsed
    sql_queries,  \* the dict being built, then returned
    produced,     \* history: every write to sql_queries, in order
    reported,     \* the except clause taken, and at which entry
    raised,       \* the exception that left extract_sql_from_tdsx, or "none"
    files         \* the .sql files of the output directory

vars == <<pc, argv1, temp_file, temp_on_disk, unlink_failed,
          exit_code, profile, nodes_left, tds_left, docIdx, root, sql_queries,
          produced, reported, raised, files>>

cliVars == <<argv1>>
extractVars == <<profile, nodes_left, tds_left, docIdx, root, sql_queries,
                 produced, reported, raised, files>>
tempVars == <<temp_file, temp_on_disk, unlink_failed>>

NoReport == [kind |-> "none", at |-> 0]

is_url == argv1 = "url"

Init ==
    /\ pc = "cli"
    /\ argv1 \in {"none", "help", "path"}
    /\ temp_file = FALSE
    /\ temp_on_disk = FALSE
    /\ unlink_failed = FALSE
    /\ exit_code = -1
    /\ profile \in Profiles
    /\ nodes_left = MaxNodes
    /\ tds_left = 0
    /\ docIdx = 0
    /\ root = EmptyDoc
    /\ sql_queries = <<>>
    /\ produced = <<>>
    /\ reported = NoReport
    /\ raised = "none"
    /\ files = {}

(* -------------------------------- cli ---------------------------------- *)
\* no argument or a help flag: print the usage and sys.exit
CliUsage ==
    /\ pc = "cli"
    /\ argv1 \in {"none", "help"}
    /\ pc' = "done"
    /\ exit_code' = IF argv1 = "help" THEN 0 ELSE 1
    /\ UNCHANGED <<cliVars, tempVars, extractVars>>

\* a local path: tdsx_path = path_or_url
CliLocal ==
    /\ pc = "cli"
    /\ argv1 = "path"
    /\ pc' = "extract"
    /\ UNCHANGED <<cliVars, tempVars, exit_code, extractVars>>

\* download_from_tableau_server returns None before it makes the temporary
\* file (URL not parsed, requests.get or raise_for_status raises); cli then
\* calls sys.exit(1)
DownloadFailsEarly ==
    /\ pc = "cli"
    /\ is_url
    /\ pc' = "finally"
    /\ exit_code' = 1
    /\ UNCHANGED <<cliVars, tempVars, extractVars>>

\* the temporary file is made, then iter_content, write or close raises:
\* the except clause returns None and cli calls sys.exit(1)
DownloadFailsLate ==
    /\ pc = "cli"
    /\ is_url
    /\ temp_on_disk' = TRUE
    /\ pc' = "finally"
    /\ exit_code' = 1
    /\ UNCHANGED <<cliVars, temp_file, unlink_failed, extractVars>>

\* the download succeeds: temp_file = tdsx_path = the temporary file's name
DownloadOk ==
    /\ pc = "cli"
    /\ is_url
    /\ temp_on_disk' = TRUE
    /\ temp_file' = TRUE
    /\ pc' = "extract"
    /\ UNCHANGED <<cliVars, unlink_failed, exit_code, extractVars>>

\* finally: if temp_file and os.path.exists(temp_file): os.unlink(temp_file)
Finally ==
    /\ pc = "finally"
    /\ pc' = "done"
    /\ exit_code' = IF exit_code = -1 THEN 0 ELSE exit_code
    /\ IF temp_file /\ temp_on_disk
       THEN \E ok \in BOOLEAN :
               /\ temp_on_disk' = ~ok
               /\ unlink_failed' = ~ok
       ELSE UNCHANGED <<temp_on_disk, unlink_failed>>
    /\ UNCHANGED <<cliVars, temp_file, extractVars>>

(* ------------------------ extract_sql_from_tdsx ------------------------ *)
\* not os.path.exists(tdsx_path): report and return the empty dict
ExtractNotFound ==
    /\ pc = "extract"
    /\ ~temp_file
    /\ reported' = [kind |-> "NotFound", at |-> 0]
    /\ pc' = "finally"
    /\ UNCHANGED <<cliVars, tempVars, exit_code, profile, nodes_left, tds_left,
                   docIdx, root, sql_queries, produced, raised, files>>

\* zipfile.ZipFile raises: BadZipFile, or anything else
OpenFails ==
    /\ pc = "extract"
    /\ \E kind \in {"BadZipFile", "Exception"} :
           reported' = [kind |-> kind, at |-> 0]
    /\ pc' = "save"
    /\ UNCHANGED <<cliVars, tempVars, exit_code, profile, nodes_left, tds_left,
                   docIdx, root, sql_queries, produced, raised, files>>

\* no name of the archive ends in .tds: report and return
OpenNoTds ==
    /\ pc = "extract"
    /\ reported' = [kind |-> "NoTds", at |-> 0]
    /\ pc' = "finally"
    /\ UNCHANGED <<cliVars, tempVars, exit_code, profile, nodes_left, tds_left,
                   docIdx, root, sql_queries, produced, raised, files>>

\* tds_files holds n names
OpenOk ==
    /\ pc = "extract"
    /\ \E n \in 1..MaxDocs : tds_left' = n
    /\ pc' = "loop"
    /\ UNCHANGED <<cliVars, tempVars, exit_code, profile, nodes_left, docIdx,
                   root, sql_queries, produced, reported, raised, files>>

\* the loop is left by an exception: the except clause reports it and the
\* function goes on to the saving step
Abort(kind) ==
    /\ pc = "loop"
    /\ tds_left > 0
    /\ docIdx' = docIdx + 1
    /\ tds_left' = tds_left - 1
    /\ reported' = [kind |-> kind, at |-> docIdx + 1]
    /\ pc' = "save"
    /\ UNCHANGED <<cliVars, tempVars, exit_code, profile, nodes_left, root,
                   sql_queries, produced, raised, files>>

\* a loop that reports the parse error and goes on with the next entry
ParseSkips ==
    /\ pc = "loop"
    /\ tds_left > 0
    /\ docIdx' = docIdx + 1
    /\ tds_left' = tds_left - 1
    /\ reported' = [kind |-> "ParseError", at |-> docIdx + 1]
    /\ pc' = IF tds_left = 1 THEN "save" ELSE "loop"
    /\ UNCHANGED <<cliVars, tempVars, exit_code, profile, nodes_left, root,
                   sql_queries, produced, raised, files>>

\* zip_ref.open or xml_file.read raises BadZipFile (bad header, bad CRC)
ReadBadZip == Abort("BadZipFile")

\* ET.fromstring raises ParseError (not XML, or not decodable)
ParseFails == Abort("ParseError")

\* any other exception in the loop body
LoopUnexpected == Abort("Exception")

\* one pass of the loop body over a well-formed document
ProcessDoc ==
    /\ pc = "loop"
    /\ tds_left > 0
    /\ \E n \in 0..nodes_left :
       \E par \in ShapesTable[n + 1] :
       \E nd \in [1..n -> Vocab[profile]] :
           LET doc == [node |-> nd, parent |-> par]
               ws == Writes(doc, docIdx + 1)
           IN  /\ root' = doc
               /\ nodes_left' = nodes_left - Len(doc.node)
               /\ sql_queries' = Apply(sql_queries, ws)
               /\ produced' = produced \o ws
    /\ docIdx' = docIdx + 1
    /\ tds_left' = tds_left - 1
    /\ pc' = IF tds_left = 1 THEN "save" ELSE "loop"
    /\ UNCHANGED <<cliVars, tempVars, exit_code, profile, reported, raised, files>>

\* the call ends: its loop state is gone
Leave ==
    /\ root' = EmptyDoc
    /\ produced' = <<>>
    /\ nodes_left' = 0
    /\ tds_left' = 0
    /\ docIdx' = 0

\* The saving step.  output_dir is read here for the first time, so the
\* argument is drawn here: the three actions below are the step without an
\* output directory (or with an empty dict) and with one.
\* `if output_dir and sql_queries` is false: return sql_queries
SaveSkip ==
    /\ pc = "save"
    /\ pc' = "finally"
    /\ Leave
    /\ UNCHANGED <<cliVars, tempVars, exit_code, profile, sql_queries, reported,
                   raised, files>>

\* every entry is written, then return sql_queries
SaveAll ==
    /\ pc = "save"
    /\ sql_queries # <<>>
    /\ files' = WriteFiles(files, sql_queries, Len(sql_queries))
    /\ pc' = "finally"
    /\ Leave
    /\ UNCHANGED <<cliVars, tempVars, exit_code, profile, sql_queries, reported,
                   raised>>

\* os.makedirs or the (n+1)-th open/write raises OSError, which leaves the
\* function and cli; the first n files stay
SaveFails ==
    /\ pc = "save"
    /\ sql_queries # <<>>
    /\ \E n \in 0..(Len(sql_queries) - 1) :
           files' = WriteFiles(files, sql_queries, n)
    /\ raised' = "OSError"
    /\ exit_code' = 1
    /\ pc' = "finally"
    /\ Leave
    /\ UNCHANGED <<cliVars, tempVars, profile, sql_queries, reported>>

\* the steps of extract_sql_from_tdsx that do not depend on how cli got the
\* archive, and cli's finally block
Extract ==
    \/ OpenFails
    \/ OpenNoTds
    \/ OpenOk
    \/ ReadBadZip
    \/ ParseFails
    \/ LoopUnexpected
    \/ ProcessDoc
    \/ SaveSkip
    \/ SaveAll
    \/ SaveFails
    \/ Finally

\* a run of cli without a URL
Next ==
    \/ CliUsage
    \/ CliLocal
    \/ ExtractNotFound
    \/ Extract

Spec == Init /\ [][Next]_vars

\* the same run over the archives of the wider vocabulary
InitWide ==
    /\ pc = "cli"
    /\ argv1 = "path"
    /\ temp_file = FALSE
    /\ temp_on_disk = FALSE
    /\ unlink_failed = FALSE
    /\ exit_code = -1
    /\ profile \in WideProfiles
    /\ nodes_left = MaxNodes
    /\ tds_left = 0
    /\ docIdx = 0
    /\ root = EmptyDoc
    /\ sql_queries = <<>>
    /\ produced = <<>>
    /\ reported = NoReport
    /\ raised = "none"
    /\ files = {}

NextWide ==
    \/ CliLocal
    \/ ExtractNotFound
    \/ Extract

SpecWide == InitWide /\ [][NextWide]_vars

\* a run of cli with a URL
InitUrl ==
    /\ pc = "cli"
    /\ argv1 = "url"
    /\ temp_file = FALSE
    /\ temp_on_disk = FALSE
    /\ unlink_failed = FALSE
    /\ exit_code = -1
    /\ profile \in Profiles
    /\ nodes_left = MaxNodes
    /\ tds_left = 0
    /\ docIdx = 0
    /\ root = EmptyDoc
    /\ sql_queries = <<>>
    /\ produced = <<>>
    /\ reported = NoReport
    /\ raised = "none"
    /\ files = {}

NextUrl ==
    \/ DownloadFailsEarly
    \/ DownloadFailsLate
    \/ DownloadOk
    \/ Extract

SpecUrl == InitUrl /\ [][NextUrl]_vars


(* ------------------- vocabulary of the properties --------------------- *)
\* extract_sql_from_tdsx was entered and has ended (by return or by raising)
Ended == pc \in {"finally", "done"} /\ reported.kind # "none"

\* the loop has just processed root, the docIdx-th document
Parsed == pc \in {"loop", "save"} /\ docIdx > 0 /\ reported.kind = "none"

\* the call is running: produced is the history of its writes
Live == pc \in {"loop", "save"}

Elements == DOMAIN root.node
Below(e) == {j \in Elements : e \in Ancestors(root.parent, j)}
Connections == {j \in Elements : root.node[j].tag = "connection"}
NamedConnections == {j \in Elements : root.node[j].tag = "named-connection"}
TextRelations(c) ==
    {j \in Below(c) : root.node[j].tag = "relation" /\ root.node[j].type = "text"}

\* an optional string with a character that is not whitespace
NonBlank(opt) == opt # None /\ \E i \in DOMAIN opt[1] : opt[1][i] \notin WS

\* t is s without its leading and trailing whitespace
IsTrimOf(t, s) ==
    /\ t # <<>> => t[1] \notin WS /\ t[Len(t)] \notin WS
    /\ \E i \in 1..(Len(s) + 1) : \E j \in 0..Len(s) :
           /\ SubSeq(s, i, j) = t
           /\ \A k \in DOMAIN s : (k < i \/ k > j) => s[k] \in WS

\* 1-based rank of e in the set S of elements, in document order
Rank(e, S) == Cardinality({j \in S : j <= e})

\* the writes made for the current document by owner o and kind k
WritesOf(k, o) ==
    {i \in DOMAIN produced :
        produced[i].doc = docIdx /\ produced[i].kind = k /\ produced[i].owner = o}

\* the name the code gave connection c
NameGiven(c) == conn_name(root, c, Rank(c, Connections))

(* ------------------------------ claims --------------------------------- *)
\* C1: a connection with exactly one text relation of non-blank text in its
\* subtree has that relation's entry labelled with the connection's name
\* itself, without a _query_<i> suffix, however many blank text relations
\* the subtree holds besides.
C1_SingleQueryLabel ==
    Parsed =>
        \A c \in Connections :
            LET queries == {r \in TextRelations(c) : NonBlank(root.node[r].text)}
            IN  Cardinality(queries) = 1 =>
                    \A r \in queries :
                        \E i \in WritesOf("relation", c) :
                            /\ produced[i].node = r
                            /\ produced[i].key = NameGiven(c)

\* C2: a connection with more than one text relation of non-blank text has
\* the i-th of them (1-based, document order) written as <name>_query_<i>
\* with its trimmed text, and these writes are made in document order.
C2_QueryIndex ==
    Parsed =>
        \A c \in Connections :
            LET queries == {r \in TextRelations(c) : NonBlank(root.node[r].text)}
            IN  Cardinality(queries) > 1 =>
                    /\ \A r \in queries :
                           \E i \in WritesOf("relation", c) :
                               /\ produced[i].node = r
                               /\ produced[i].key =
                                      NameGiven(c) \o S_query \o str(Rank(r, queries))
                               /\ IsTrimOf(produced[i].val, root.node[r].text[1])
                    /\ \A i, j \in WritesOf("relation", c) :
                           i < j => produced[i].node < produced[j].node

\* C3: the name under which a connection's entries are written is its class
\* attribute when present and not empty, and otherwise connection_<n> with n
\* its 1-based rank among the connections of the same document.
ClaimedName(c) ==
    LET class == root.node[c].class
    IN  IF class # None /\ class[1] # <<>> THEN class[1]
        ELSE S_connection \o str(Rank(c, Connections))

C3_DisplayName ==
    Parsed =>
        \A c \in Connections : \A i \in WritesOf("relation", c) :
            \/ produced[i].key = ClaimedName(c)
            \/ \E n \in Elements :
                   produced[i].key = ClaimedName(c) \o S_query \o str(n)

\* C4: for every named-connection of the document, in document order: when
\* the first connection nested in it (any depth) has a one-time-sql that is
\* not blank, exactly one write is made for it, under <name>_initial_sql
\* (name attribute, or unnamed) with the trimmed attribute, and the dict
\* holds that label, with that value unless a later write took the label;
\* otherwise no write is made for it.
C4_NamedInitialSql ==
    Parsed =>
        /\ \A n \in NamedConnections :
               LET nested == Below(n) \cap Connections
                   first == CHOOSE c \in nested : \A d \in nested : c <= d
                   hits == WritesOf("named", n)
               IN  IF nested # {} /\ NonBlank(root.node[first].ots)
                   THEN \E k \in hits :
                           /\ hits = {k}
                           /\ produced[k].node = first
                           /\ produced[k].key =
                                  (IF root.node[n].name = None THEN S_unnamed
                                   ELSE root.node[n].name[1]) \o S_initial_sql
                           /\ IsTrimOf(produced[k].val, root.node[first].ots[1])
                           /\ HasKey(sql_queries, produced[k].key)
                           /\ \/ Lookup(sql_queries, produced[k].key) = produced[k].val
                              \/ \E l \in DOMAIN produced :
                                     l > k /\ produced[l].key = produced[k].key
                   ELSE hits = {}
        /\ \A m, n \in NamedConnections :
               \A k \in WritesOf("named", m) : \A l \in WritesOf("named", n) :
                   m < n => k < l

\* a named-connection with two nested connections, the first of which
\* carries the initial SQL, has been processed
W4_NamedWithNestedConnections ==
    /\ Parsed
    /\ \E n \in NamedConnections :
           /\ Cardinality(Below(n) \cap Connections) > 1
           /\ WritesOf("named", n) # {}

\* C5: when the input is classified as not a valid archive, at the opening
\* or at the reading of an entry, the dict returned is empty and no .sql
\* file is written.
C5_NoPartialOnBadZip ==
    (Ended /\ reported.kind = "BadZipFile") => sql_queries = <<>> /\ files = {}

\* C6: when the decoding or parsing of a document fails (ParseError, or
\* another exception of the loop body), the loop over the documents is
\* left for good: the error is reported for that document, the documents
\* after it are not visited and write nothing, and the error does not
\* leave the function.
C6_ParseErrorAborts ==
    (reported.kind \in {"ParseError", "Exception"} /\ reported.at > 0) =>
        /\ pc \in {"save", "finally", "done"}
        /\ raised \notin {"ParseError", "Exception"}
        /\ pc = "save" =>
               /\ docIdx = reported.at
               /\ raised = "none"
               /\ \A k \in DOMAIN produced : produced[k].doc < reported.at
               /\ \A i \in DOMAIN sql_queries :
                      \E k \in DOMAIN produced : produced[k].key = sql_queries[i].key

\* a parse error with a document left unvisited
W6_ParseErrorBeforeLastDoc ==
    /\ reported.kind = "ParseError"
    /\ pc = "save"
    /\ tds_left > 0

\* C7: after the dict was saved to the output directory, the file
\* <safe-name(label)>.sql holds exactly the SQL of every entry.
C7_RoundTrip ==
    (Ended /\ raised = "none" /\ files # {}) =>
        \A i \in DOMAIN sql_queries :
            \E f \in files :
                /\ f.path = safe_name(sql_queries[i].key) \o S_sql
                /\ f.content = sql_queries[i].val

\* C8: every value of the dict is a non-empty string without leading or
\* trailing whitespace, and no write comes from a relation text or a
\* one-time-sql attribute that is absent, empty or blank.
C8_ValuesTrimmed ==
    /\ \A i \in DOMAIN sql_queries :
           LET v == sql_queries[i].val
           IN  v # <<>> /\ v[1] \notin WS /\ v[Len(v)] \notin WS
    /\ Parsed =>
           \A k \in DOMAIN produced :
               produced[k].doc = docIdx =>
                   IF produced[k].kind = "relation"
                   THEN NonBlank(root.node[produced[k].node].text)
                   ELSE NonBlank(root.node[produced[k].node].ots)

\* a document with a blank text relation or a blank one-time-sql next to
\* a source of SQL that was written
W8_BlankNextToQuery ==
    /\ Parsed
    /\ \E k \in DOMAIN produced : produced[k].doc = docIdx
    /\ \E e \in Elements :
           \/ /\ root.node[e].tag = "relation"
              /\ root.node[e].type = "text"
              /\ root.node[e].text # None
              /\ ~NonBlank(root.node[e].text)
           \/ /\ root.node[e].tag = "connection"
              /\ root.node[e].ots # None
              /\ ~NonBlank(root.node[e].ots)
              /\ \E n \in NamedConnections : e \in Below(n)

\* C9: when a run with a URL has ended, no temporary file made for the
\* download is left, unless os.unlink itself failed.
C9_TempFileRemoved ==
    (pc = "done" /\ is_url /\ ~unlink_failed) => ~temp_on_disk

\* C10: writes are made document by document, in a document first those of
\* the relations (by connection, then by relation) and then those of the
\* named-connections; the dict holds one entry per label written, in the
\* order the labels were first written, each with the value of the last
\* write of its label.
WrittenBefore(p, q) ==
    \/ p.doc < q.doc
    \/ /\ p.doc = q.doc
       /\ \/ p.kind = "relation" /\ q.kind = "named"
          \/ /\ p.kind = q.kind
             /\ \/ p.owner < q.owner
                \/ p.kind = "relation" /\ p.owner = q.owner /\ p.node < q.node

FirstWrite(key) ==
    CHOOSE k \in DOMAIN produced :
        /\ produced[k].key = key
        /\ \A l \in DOMAIN produced : produced[l].key = key => k <= l

C10_LastWriteWins ==
    Live =>
        /\ \A k, l \in DOMAIN produced :
               k < l => WrittenBefore(produced[k], produced[l])
        /\ \A k \in DOMAIN produced : HasKey(sql_queries, produced[k].key)
        /\ \A i, j \in DOMAIN sql_queries :
               /\ sql_queries[i].key = sql_queries[j].key => i = j
               /\ i < j =>
                      FirstWrite(sql_queries[i].key) < FirstWrite(sql_queries[j].key)
        /\ \A i \in DOMAIN sql_queries :
               \E k \in DOMAIN produced :
                   /\ produced[k].key = sql_queries[i].key
                   /\ produced[k].val = sql_queries[i].val
                   /\ \A l \in DOMAIN produced :
                          produced[l].key = sql_queries[i].key => l <= k

\* one label was written twice, with different SQL
W10_LabelWrittenTwice ==
    /\ Live
    /\ \E k, l \in DOMAIN produced :
           /\ k < l
           /\ produced[k].key = produced[l].key
           /\ produced[k].val # produced[l].val
=============================================================================
